---- MODULE Spec2Model ----
(***************************************************************************)
(* Verification model of the FoundLab Suite trust code:                    *)
(*   - the Veritas ledger kept by ResearchWorkflow.handleStartResearch     *)
(*     (sealBlock, the research pipeline around it);                       *)
(*   - the audit service (log, sendToVeritas, updateLogWithVerification,   *)
(*     clearLogs) and the AuditLogViewer that displays it;                 *)
(*   - the KYC workflow of App (file selection, parsing, enrichment, risk  *)
(*     analysis, reset);                                                   *)
(*   - the KeyStore and CryptoGateway of the Trust Ledger Core, and the    *)
(*     out-of-band modification of a sealed ledger, from the               *)
(*     specification.                                                      *)
(*                                                                         *)
(* Strings are sequences of tokens.  A token is a record: [atom |-> s] for *)
(* a piece of text, [sha |-> content] for the 64-digit hex digest of the   *)
(* string `content`.  SHA-256 is modelled as an ideal hash: two digests    *)
(* are equal exactly when their inputs are equal, and no digest equals the *)
(* all-zero string.                                                        *)
(***************************************************************************)
EXTENDS FiniteSets, Integers, Sequences, TLC

VARIABLES
    \* ---- ResearchWorkflow component state ----
    topic,              \* useState('') : the research topic input
    isProcessing,       \* useState(false)
    stopRequested,      \* useRef(false)
    capsule,            \* useState<ResearchCapsule | null>(null)
    outcome,            \* last terminal entry written by addLog for a run
    \* ---- one run of handleStartResearch (its closure) ----
    pc,                 \* the await the run is suspended at
    uuids,              \* number of crypto.randomUUID() values handed out
    decisionId,         \* const decisionId
    veritasLedger,      \* const veritasLedger: VeritasBlock[]
    previousChainHash,  \* let previousChainHash
    calls,              \* sealBlock invocations of this ledger (in flight or settled)
    steps,              \* const steps = await planResearch(...)
    executionQueue,     \* const executionQueue
    stepIndex,          \* let stepIndex
    allFindings,        \* const allFindings
    cur,                \* { findings, sources, newQuestions } of the step in progress
    snapLeft,           \* sources whose snapshotHash is still to be computed
    report,             \* result.fullReport of synthesizeReport
    regressions,        \* times the wall clock was set back so far
    \* ---- auditService (localStorage, requests in flight) and its viewer ----
    cryptoRandomUUID,   \* the browser provides crypto.randomUUID
    storage,            \* localStorage[STORAGE_KEY] parsed: list of AuditEvent, newest first
    inflight,           \* sendToVeritas calls suspended at an await
    ledgerTail,         \* Veritas Observer: number of blocks in the server's chain
    served,             \* history: success responses the ledger has sent
    sealFailed,         \* history: ids whose ledger request failed
    logCalls,           \* history: one record per log() call, with how it ended
    viewMounted,        \* AuditLogViewer is mounted (its storage listener is registered)
    viewLogs,           \* AuditLogViewer useState logs
    \* ---- the stored ledger under out-of-band modification ----
    tamperedAt,         \* index of the block modified behind the ledger's back, or -1
    \* ---- KeyStore and CryptoGateway (Umbrella KMS) ----
    keyRecord,          \* key_id -> KeyRecord.state, "ABSENT" before provisioning
    rawKey,             \* key_id -> the key bytes as they are in the KeyStore's memory
    shredding,          \* key ids whose destruction is in progress
    using,              \* use_key callbacks in flight
    envelopes,          \* EncryptedEnvelopes handed out by encrypt
    kmsLast,            \* the operation that returned last, with its result
    \* ---- App: the KYC workflow ----
    status,             \* useState<AnalysisStatus>(AnalysisStatus.IDLE)
    files,              \* useState([]): number of loaded files
    contextNote,        \* useState(""): the note is not blank
    extractedEntity,    \* useState<ExtractedEntity | null>(null)
    enrichmentData,     \* useState<EnrichmentData | null>(null)
    riskReport,         \* useState<RiskReport | null>(null)
    error,              \* useState<string | null>(null)
    pending,            \* asynchronous calls in flight, per kind
    kycStep             \* the handler stretch that ran last: its setStatus and auditService.log calls

researchVars == <<topic, isProcessing, stopRequested, capsule, outcome, pc, uuids,
                  decisionId, veritasLedger, previousChainHash, calls, steps,
                  executionQueue, stepIndex, allFindings, cur, snapLeft, report, regressions>>
auditVars == <<cryptoRandomUUID, storage, inflight, ledgerTail, served, sealFailed,
               logCalls, viewMounted, viewLogs>>
tamperVars == <<tamperedAt>>
kmsVars == <<keyRecord, rawKey, shredding, using, envelopes, kmsLast>>
kycVars == <<status, files, contextNote, extractedEntity, enrichmentData, riskReport,
             error, pending, kycStep>>
otherVars == <<tamperVars, kmsVars, kycVars>>
vars == <<topic, isProcessing, stopRequested, capsule, outcome, pc, uuids,
          decisionId, veritasLedger, previousChainHash, calls, steps,
          executionQueue, stepIndex, allFindings, cur, snapLeft, report,
          regressions, cryptoRandomUUID, storage, inflight, ledgerTail, served,
          sealFailed, logCalls, viewMounted, viewLogs, tamperedAt,
          keyRecord, rawKey, shredding, using, envelopes, kmsLast,
          status, files, contextNote, extractedEntity, enrichmentData, riskReport,
          error, pending, kycStep>>

(***************************************************************************)
(* Bounds of the model.                                                    *)
(***************************************************************************)
MaxRuns == 2          \* runs of handleStartResearch explored
MaxRegress == 1       \* times the wall clock is set back
MaxConcurrent == 3    \* sealBlock calls fired at once by the concurrency scenario
MaxLogCalls == 3      \* calls of auditService.log explored

None == [none |-> TRUE]

At(s) == [atom |-> s]

\* ResearchWorkflow.tsx:59  the initial previousChainHash, 64 zeros
ZERO_SENTINEL == At("0000000000000000000000000000000000000000000000000000000000000000")

\* ResearchWorkflow.tsx:15-20  sha256(content): hex digest of the UTF-8 bytes
sha256(content) == [sha |-> content]

\* ResearchWorkflow.tsx:63  const dataHash = await sha256(data)
DataHashOf(data) == sha256(data)

\* bug variant: the two digests are concatenated in the opposite order
ChainHashOf_Swapped(dataHash, prev) == sha256(<<prev, dataHash>>)

\* bug variant: the chain hash leaves the predecessor's hash out
ChainHashOf_NoPrev(dataHash, prev) == sha256(<<dataHash>>)

\* ResearchWorkflow.tsx:64  const chainHash = await sha256(dataHash + previousChainHash)
ChainHashOf(dataHash, prev) == sha256(<<dataHash, prev>>)


(***************************************************************************)
(* Inputs of a research run.                                               *)
(***************************************************************************)
Topics == {"", "t1"}
Findings == {"f1"}
Reports == {"r1", "undefined"}

\* ResearchWorkflow.tsx:25  useState(ResearchMode.ATI_AUDIT)
mode == "ATI_AUDIT"

\* geminiService planResearch: cleanJson(response.text) is any JSON value: an
\* array of strings, or the {} that cleanAndParseJSON returns on a parse failure
JsonArray(items) == [isArray |-> TRUE, items |-> items]
NotIterable == [isArray |-> FALSE, items |-> <<>>]
Plans == {JsonArray(items) : items \in {<<>>, <<"q1">>, <<"q2">>, <<"q1", "q1">>,
                                          <<"q1", "q2">>}}
         \cup {NotIterable}

\* geminiService executeResearchStep: scores assigned to grounding chunks
SourceSets == {<<>>, <<40, 65>>, <<90>>}
ForkSets == {<<>>, <<"q1", "q3">>}
ExecResults ==
    [findings : Findings, sources : SourceSets, newQuestions : ForkSets]
    \cup {[findings |-> "Failed to execute search step.", sources |-> <<>>,
           newQuestions |-> <<>>]}

\* ResearchWorkflow.tsx:129  executionQueue.length < 10
MaxQueueFork == 10
\* ResearchWorkflow.tsx:117  avgTrust < 60
TrustThreshold == 60

RECURSIVE SumSeq(_)
SumSeq(s) == IF s = <<>> THEN 0 ELSE Head(s) + SumSeq(Tail(s))

Includes(q, x) == \E i \in 1..Len(q) : q[i] = x

\* bug variant: the comparison with the threshold is turned around
WeakSignal_Inverted(sources) ==
    Len(sources) > 0 /\ SumSeq(sources) >= TrustThreshold * Len(sources)

\* ResearchWorkflow.tsx:113-117  sources.length > 0 && avgTrust < 60
\* (sum / n < 60 is sum < 60 * n for n > 0)
WeakSignal(sources) ==
    Len(sources) > 0 /\ SumSeq(sources) < TrustThreshold * Len(sources)

\* ResearchWorkflow.tsx:127-134  newQuestions.forEach(forkQ => ...)
RECURSIVE Fork(_, _)
Fork(queue, newQuestions) ==
    IF newQuestions = <<>> THEN queue
    ELSE LET forkQ == Head(newQuestions)
         IN  IF ~Includes(queue, forkQ) /\ Len(queue) < MaxQueueFork
             THEN Fork(Append(queue, forkQ), Tail(newQuestions))
             ELSE Fork(queue, Tail(newQuestions))

\* JSON.stringify(steps) at ResearchWorkflow.tsx:87
JSONstringify(value) ==
    IF ~value.isArray THEN <<At("{}")>>
    ELSE <<At("[")>> \o [i \in 1..Len(value.items) |-> At(value.items[i])] \o <<At("]")>>

(***************************************************************************)
(* sealBlock (ResearchWorkflow.tsx:62-77).  A call is suspended twice:     *)
(* at `await sha256(data)` and at `await sha256(dataHash + prev)`.         *)
(***************************************************************************)
NewCall(eventType, data) ==
    [eventType |-> eventType, data |-> data, stage |-> "digestData",
     dataHash |-> None, chainHash |-> None]

\* first segment of sealBlock: up to the first await
sealBlock(eventType, data) == calls' = <<NewCall(eventType, data)>>

\* bug variant: indices counted from one (index: veritasLedger.length + 1)
NewBlock_IndexFromOne(c, t) ==
    [index |-> Len(veritasLedger) + 1,
     timestamp |-> t,
     eventId |-> decisionId,
     eventType |-> c.eventType,
     dataHash |-> c.dataHash,
     previousChainHash |-> previousChainHash,
     chainHash |-> c.chainHash]

\* bug variant: previousChainHash filled with the block's own chain hash
NewBlock_OwnHashAsPrev(c, t) ==
    [index |-> Len(veritasLedger),
     timestamp |-> t,
     eventId |-> decisionId,
     eventType |-> c.eventType,
     dataHash |-> c.dataHash,
     previousChainHash |-> c.chainHash,
     chainHash |-> c.chainHash]

\* ResearchWorkflow.tsx:65-73  the block literal, built after both awaits
NewBlock(c, t) ==
    [index |-> Len(veritasLedger),
     timestamp |-> t,
     eventId |-> decisionId,
     eventType |-> c.eventType,
     dataHash |-> c.dataHash,
     previousChainHash |-> previousChainHash,
     chainHash |-> c.chainHash]

\* second segment: resumes with the data digest, reads previousChainHash to
\* build the argument of the second digest, suspends again
SealDigestData(i) ==
    /\ i \in DOMAIN calls
    /\ calls[i].stage = "digestData"
    /\ LET dataHash == DataHashOf(calls[i].data)
       IN  calls' = [calls EXCEPT ![i].stage = "digestChain",
                                  ![i].dataHash = dataHash,
                                  ![i].chainHash = ChainHashOf(dataHash, previousChainHash)]
    /\ UNCHANGED <<topic, isProcessing, stopRequested, capsule, outcome, pc, uuids,
                   decisionId, veritasLedger, previousChainHash, steps,
                   executionQueue, stepIndex, allFindings, cur, snapLeft, report, regressions>>
    /\ UNCHANGED <<auditVars, otherVars>>

\* new Date().toISOString() at ResearchWorkflow.tsx:67: the wall clock moves on
\* between two reads unless it was set back in between
LastTimestamp == IF veritasLedger = <<>> THEN 0
                 ELSE veritasLedger[Len(veritasLedger)].timestamp
ClockReadings ==
    {LastTimestamp + 1} \cup (IF regressions < MaxRegress THEN {LastTimestamp - 1} ELSE {})

\* bug variant: the new block overwrites the last one instead of being pushed
SealPushBlock_Overwrite(i, t) ==
    /\ i \in DOMAIN calls
    /\ calls[i].stage = "digestChain"
    /\ veritasLedger' =
          IF veritasLedger = <<>> THEN <<NewBlock(calls[i], t)>>
          ELSE [veritasLedger EXCEPT ![Len(veritasLedger)] = NewBlock(calls[i], t)]
    /\ previousChainHash' = calls[i].chainHash
    /\ regressions' = IF t < LastTimestamp THEN regressions + 1 ELSE regressions

\* bug variant: previousChainHash is not advanced after the push
SealPushBlock_StaleTail(i, t) ==
    /\ i \in DOMAIN calls
    /\ calls[i].stage = "digestChain"
    /\ veritasLedger' = Append(veritasLedger, NewBlock(calls[i], t))
    /\ previousChainHash' = previousChainHash
    /\ regressions' = IF t < LastTimestamp THEN regressions + 1 ELSE regressions

\* third segment: build the block, push it, advance previousChainHash
SealPushBlock(i, t) ==
    /\ i \in DOMAIN calls
    /\ calls[i].stage = "digestChain"
    /\ veritasLedger' = Append(veritasLedger, NewBlock(calls[i], t))
    /\ previousChainHash' = calls[i].chainHash
    /\ regressions' = IF t < LastTimestamp THEN regressions + 1 ELSE regressions


Resolve(i) == calls' = [calls EXCEPT ![i].stage = "resolved"]

(***************************************************************************)
(* handleStartResearch (ResearchWorkflow.tsx:44-187), one action per       *)
(* stretch of code between two awaits.                                     *)
(***************************************************************************)
NoCapsule == [null |-> TRUE]
NoResult == [findings |-> "", sources |-> <<>>, newQuestions |-> <<>>]

\* bug variant: the finally block leaves the stop flag as it is
Finally_KeepsStopFlag(result) ==
    /\ isProcessing' = FALSE
    /\ stopRequested' = stopRequested
    /\ outcome' = result
    /\ pc' = "idle"

\* ResearchWorkflow.tsx:183-186  finally { setIsProcessing(false); stopRequested.current = false }
\* after the COMPLETED (179) or FATAL (182) log entry
Finally(result) ==
    /\ isProcessing' = FALSE
    /\ stopRequested' = FALSE
    /\ outcome' = result
    /\ pc' = "idle"

\* ResearchWorkflow.tsx:223  onChange of the topic input (disabled while processing,
\* not rendered while a capsule is shown)
SetTopic(t) ==
    /\ ~isProcessing /\ capsule = NoCapsule
    /\ t # topic
    /\ topic' = t
    /\ UNCHANGED <<isProcessing, stopRequested, capsule, outcome, pc, uuids,
                   decisionId, veritasLedger, previousChainHash, calls, steps,
                   executionQueue, stepIndex, allFindings, cur, snapLeft, report, regressions>>
    /\ UNCHANGED <<auditVars, otherVars>>

\* ResearchWorkflow.tsx:192-198  Back to Research Input / onReset
CloseCapsule ==
    /\ capsule # NoCapsule
    /\ capsule' = NoCapsule
    /\ UNCHANGED <<topic, isProcessing, stopRequested, outcome, pc, uuids,
                   decisionId, veritasLedger, previousChainHash, calls, steps,
                   executionQueue, stepIndex, allFindings, cur, snapLeft, report, regressions>>
    /\ UNCHANGED <<auditVars, otherVars>>

\* ResearchWorkflow.tsx:37-42
handleStop ==
    /\ isProcessing
    /\ ~stopRequested
    /\ stopRequested' = TRUE
    /\ UNCHANGED <<topic, isProcessing, capsule, outcome, pc, uuids,
                   decisionId, veritasLedger, previousChainHash, calls, steps,
                   executionQueue, stepIndex, allFindings, cur, snapLeft, report, regressions>>
    /\ UNCHANGED <<auditVars, otherVars>>

\* ResearchWorkflow.tsx:44-82  the button runs handleStartResearch only while
\* !isProcessing (line 227) and is disabled for a blank topic (line 228)
handleStartResearch ==
    /\ pc = "idle" /\ ~isProcessing /\ capsule = NoCapsule
    /\ topic # ""
    /\ uuids < MaxRuns
    /\ isProcessing' = TRUE
    /\ stopRequested' = FALSE
    /\ capsule' = NoCapsule
    /\ outcome' = "none"
    /\ uuids' = uuids + 1
    /\ decisionId' = uuids + 1
    /\ veritasLedger' = <<>>
    /\ previousChainHash' = ZERO_SENTINEL
    /\ sealBlock("INGEST", <<At(topic), At(mode)>>)
    /\ pc' = "seal"
    /\ steps' = JsonArray(<<>>)
    /\ executionQueue' = <<>>
    /\ stepIndex' = 0
    /\ allFindings' = <<>>
    /\ cur' = NoResult
    /\ snapLeft' = 0
    /\ report' = None
    /\ UNCHANGED regressions
    /\ UNCHANGED topic
    /\ UNCHANGED <<auditVars, otherVars>>

\* bug variant: the loop test does not look at the stop flag
LoopHead_IgnoresStop(queue, idx, found) ==
    IF idx < Len(queue)
    THEN /\ pc' = "exec"
         /\ UNCHANGED <<isProcessing, stopRequested, outcome>>
    ELSE IF Len(found) = 0
         THEN Finally("fatal")
         ELSE /\ pc' = "synth"
              /\ UNCHANGED <<isProcessing, stopRequested, outcome>>

\* ResearchWorkflow.tsx:97-109 and 150-157: the loop test, then either the next
\* executeResearchStep or the egress stage
LoopHead(queue, idx, found) ==
    IF idx < Len(queue) /\ ~stopRequested
    THEN /\ pc' = "exec"
         /\ UNCHANGED <<isProcessing, stopRequested, outcome>>
    ELSE IF Len(found) = 0
         THEN Finally("fatal")                     \* throw new Error("No data collected.")
         ELSE /\ pc' = "synth"
              /\ UNCHANGED <<isProcessing, stopRequested, outcome>>


\* ResearchWorkflow.tsx:136-143  after the critic stage: fork, then hash a
\* snapshot per source, then push the finding and seal ENGINE_EXEC
SealStep(r) ==
    /\ allFindings' = Append(allFindings,
                             [question |-> executionQueue[stepIndex + 1],
                              findings |-> r.findings])
    /\ sealBlock("ENGINE_EXEC", <<At(executionQueue[stepIndex + 1]), At(r.findings)>>)
    /\ cur' = NoResult                  \* the step's block-scoped locals are done with
    /\ pc' = "seal"

ForkAndSnapshot(r) ==
    /\ executionQueue' = Fork(executionQueue, r.newQuestions)
    /\ snapLeft' = Len(r.sources)
    /\ IF Len(r.sources) = 0
       THEN SealStep(r)
       ELSE /\ pc' = "snap"
            /\ cur' = [r EXCEPT !.newQuestions = <<>>]
            /\ UNCHANGED <<allFindings, calls>>

\* ResearchWorkflow.tsx:86-87  planResearch resolved
PlanReturned(plan) ==
    /\ pc = "plan"
    /\ steps' = plan
    /\ sealBlock("ORCHESTRATION", JSONstringify(plan))
    /\ pc' = "seal"
    /\ UNCHANGED <<topic, isProcessing, stopRequested, capsule, outcome, uuids,
                   decisionId, veritasLedger, previousChainHash,
                   executionQueue, stepIndex, allFindings, cur, snapLeft, report, regressions>>
    /\ UNCHANGED <<auditVars, otherVars>>

\* planResearch rejects: getClient() throws outside its try block (API key missing)
PlanThrows ==
    /\ pc = "plan"
    /\ Finally("fatal")
    /\ UNCHANGED <<topic, capsule, uuids, decisionId, veritasLedger,
                   previousChainHash, calls, steps, executionQueue, stepIndex,
                   allFindings, cur, snapLeft, report, regressions>>
    /\ UNCHANGED <<auditVars, otherVars>>

\* ResearchWorkflow.tsx:109-124  the first executeResearchStep resolved
ExecReturned(r) ==
    /\ pc = "exec"
    /\ IF WeakSignal(r.sources)
       THEN /\ sealBlock("CRITIC_VAL",
                         <<At("RETRY_TRIGGERED:"), At(executionQueue[stepIndex + 1])>>)
            /\ cur' = r
            /\ pc' = "seal"
            /\ UNCHANGED <<executionQueue, allFindings, snapLeft, report, regressions>>
       ELSE ForkAndSnapshot(r)
    /\ UNCHANGED <<topic, isProcessing, stopRequested, capsule, outcome, uuids,
                   decisionId, veritasLedger, previousChainHash, steps, stepIndex, report,
                   regressions>>
    /\ UNCHANGED <<auditVars, otherVars>>

\* ResearchWorkflow.tsx:120-143  the retry resolved; its result replaces the first
RetryReturned(r) ==
    /\ pc = "retry"
    /\ ForkAndSnapshot(r)
    /\ UNCHANGED <<topic, isProcessing, stopRequested, capsule, outcome, uuids,
                   decisionId, veritasLedger, previousChainHash, steps, stepIndex, report,
                   regressions>>
    /\ UNCHANGED <<auditVars, otherVars>>

\* ResearchWorkflow.tsx:137-143  one s.snapshotHash = await sha256(...) resolved
SnapshotHashed ==
    /\ pc = "snap"
    /\ snapLeft' = snapLeft - 1
    /\ IF snapLeft = 1
       THEN SealStep(cur)
       ELSE UNCHANGED <<pc, allFindings, calls, cur>>
    /\ UNCHANGED <<topic, isProcessing, stopRequested, capsule, outcome, uuids,
                   decisionId, veritasLedger, previousChainHash, steps,
                   executionQueue, stepIndex, report, regressions>>
    /\ UNCHANGED <<auditVars, otherVars>>

\* crypto.subtle.digest rejects while a snapshot hash is awaited
SnapshotRejects ==
    /\ pc = "snap"
    /\ Finally("fatal")
    /\ UNCHANGED <<topic, capsule, uuids, decisionId, veritasLedger,
                   previousChainHash, calls, steps, executionQueue, stepIndex,
                   allFindings, cur, snapLeft, report, regressions>>
    /\ UNCHANGED <<auditVars, otherVars>>

\* ResearchWorkflow.tsx:146-147  the 1200 ms timer fired: stepIndex++, loop test
WaitDone ==
    /\ pc = "wait"
    /\ stepIndex' = stepIndex + 1
    /\ LoopHead(executionQueue, stepIndex + 1, allFindings)
    /\ UNCHANGED <<topic, capsule, uuids, decisionId, veritasLedger,
                   previousChainHash, calls, steps, executionQueue,
                   allFindings, cur, snapLeft, report, regressions>>
    /\ UNCHANGED <<auditVars, otherVars>>

\* ResearchWorkflow.tsx:157-159  synthesizeReport resolved
SynthReturned(fullReport) ==
    /\ pc = "synth"
    /\ sealBlock("WORM_SEAL", <<At(fullReport)>>)
    /\ report' = fullReport
    /\ pc' = "seal"
    /\ UNCHANGED <<topic, isProcessing, stopRequested, capsule, outcome, uuids,
                   decisionId, veritasLedger, previousChainHash, steps,
                   executionQueue, stepIndex, allFindings, cur, snapLeft, regressions>>
    /\ UNCHANGED <<auditVars, otherVars>>

\* synthesizeReport rejects ("Synthesis failed", or the model call fails)
SynthThrows ==
    /\ pc = "synth"
    /\ Finally("fatal")
    /\ UNCHANGED <<topic, capsule, uuids, decisionId, veritasLedger,
                   previousChainHash, calls, steps, executionQueue, stepIndex,
                   allFindings, cur, snapLeft, report, regressions>>
    /\ UNCHANGED <<auditVars, otherVars>>


\* bug variant: the capsule takes the ledger as it was before the WORM_SEAL block
FinalCapsule_BeforeSeal(ledger) ==
    [id |-> decisionId,
     topic |-> topic,
     plan_steps |-> executionQueue,
     fullReport |-> report,
     veritasLedger |-> SubSeq(ledger, 1, Len(ledger) - 1)]

\* ResearchWorkflow.tsx:161-178  const finalCapsule = {...}; setCapsule(finalCapsule)
FinalCapsule(ledger) ==
    [id |-> decisionId,
     topic |-> topic,
     plan_steps |-> executionQueue,
     fullReport |-> report,
     veritasLedger |-> ledger]

\* A sealBlock call of the run resolved: the third segment of sealBlock, then
\* the code of handleStartResearch that follows that `await sealBlock(...)`
SealPush ==
    /\ pc = "seal"
    /\ \E t \in ClockReadings : SealPushBlock(1, t)
    /\ Resolve(1)
    /\ LET eventType == calls[1].eventType IN
       CASE eventType = "INGEST" ->                         \* lines 82-86
              /\ pc' = "plan"
              /\ UNCHANGED <<isProcessing, stopRequested, capsule, outcome,
                             executionQueue, stepIndex>>
         [] eventType = "ORCHESTRATION" ->                  \* lines 87-109
              IF ~steps.isArray
              THEN /\ Finally("fatal")                      \* [...steps] throws
                   /\ UNCHANGED <<capsule, executionQueue, stepIndex>>
              ELSE /\ executionQueue' = steps.items
                   /\ stepIndex' = 0
                   /\ LoopHead(steps.items, 0, allFindings)
                   /\ UNCHANGED capsule
         [] eventType = "CRITIC_VAL" ->                     \* lines 119-120
              /\ pc' = "retry"
              /\ UNCHANGED <<isProcessing, stopRequested, capsule, outcome,
                             executionQueue, stepIndex>>
         [] eventType = "ENGINE_EXEC" ->                    \* lines 143-146
              /\ pc' = "wait"
              /\ UNCHANGED <<isProcessing, stopRequested, capsule, outcome,
                             executionQueue, stepIndex>>
         [] eventType = "WORM_SEAL" ->                      \* lines 159-186
              /\ capsule' = FinalCapsule(veritasLedger')
              /\ Finally("completed")
              /\ UNCHANGED <<executionQueue, stepIndex>>
    /\ UNCHANGED <<topic, uuids, decisionId, steps, allFindings, cur, snapLeft, report>>
    /\ UNCHANGED <<auditVars, otherVars>>

\* bug variant: a call that rejects after its chain hash was computed has
\* already advanced previousChainHash
SealRejects_AdvancesTail ==
    /\ pc = "seal"
    /\ calls[1].stage \in {"digestData", "digestChain"}
    /\ calls' = [calls EXCEPT ![1].stage = "rejected"]
    /\ Finally("fatal")
    /\ previousChainHash' = IF calls[1].stage = "digestChain" THEN calls[1].chainHash
                            ELSE previousChainHash
    /\ UNCHANGED <<topic, capsule, uuids, decisionId, veritasLedger,
                   steps, executionQueue, stepIndex,
                   allFindings, cur, snapLeft, report, regressions>>
    /\ UNCHANGED <<auditVars, otherVars>>

\* crypto.subtle.digest rejects inside sealBlock: the call rejects before it
\* builds a block, handleStartResearch goes to catch/finally (lines 181-186)
SealRejects ==
    /\ pc = "seal"
    /\ calls[1].stage \in {"digestData", "digestChain"}
    /\ calls' = [calls EXCEPT ![1].stage = "rejected"]
    /\ Finally("fatal")
    /\ UNCHANGED <<topic, capsule, uuids, decisionId, veritasLedger,
                   previousChainHash, steps, executionQueue, stepIndex,
                   allFindings, cur, snapLeft, report, regressions>>
    /\ UNCHANGED <<auditVars, otherVars>>

(***************************************************************************)
(* Concurrency scenario: several sealBlock calls on one ledger started     *)
(* without awaiting one another, as in                                     *)
(*   await Promise.all(events.map(e => sealBlock('ENGINE_EXEC', e)))       *)
(***************************************************************************)
EventData == {"e1", "e2"}

ConcurrentPush(i) ==
    /\ pc = "concurrent"
    /\ \E t \in ClockReadings : SealPushBlock(i, t)
    /\ Resolve(i)
    /\ UNCHANGED <<topic, isProcessing, stopRequested, capsule, outcome, pc, uuids,
                   decisionId, steps, executionQueue, stepIndex, allFindings,
                   cur, snapLeft, report>>
    /\ UNCHANGED <<auditVars, otherVars>>

(***************************************************************************)
(* auditService (unnamed/part_008) and AuditLogViewer.                     *)
(***************************************************************************)
\* part_008:14  const MAX_LOGS = 1000, scaled down so that the truncation happens
MAX_LOGS == 2

\* what callers pass to log(type, action, details)
LogInputs == {[type |-> "USER_ACTION", action |-> "a1"],
              [type |-> "ERROR", action |-> "a2", details |-> "d"]}

\* fetch() outcomes of sendToVeritas.  The ledger service is not part of the
\* client: its answers follow the ingestion contract (success carries
\* lock_hash and chain_index, failure is a non-2xx status)
FetchOutcomes == {"unreachable", "non2xx", "ok"}

\* the ledger's success body for the block it appended at index `tail`
LedgerReceipt(tail) == [lock_hash |-> <<"chain_hash", tail>>, chain_index |-> tail]

\* part_008:55  if (response.ok)
ResponseOk(fetchOutcome) == fetchOutcome = "ok"

\* bug variant: the new entry is put behind the existing ones
PrependAndLimit_Append(newLog, existingLogs) ==
    SubSeq(existingLogs \o <<newLog>>, 1,
           IF Len(existingLogs) + 1 < MAX_LOGS THEN Len(existingLogs) + 1 ELSE MAX_LOGS)

\* part_008:78  [newLog, ...existingLogs].slice(0, MAX_LOGS)
PrependAndLimit(newLog, existingLogs) ==
    SubSeq(<<newLog>> \o existingLogs, 1,
           IF Len(existingLogs) + 1 < MAX_LOGS THEN Len(existingLogs) + 1 ELSE MAX_LOGS)

\* bug variant: the newest entry is taken without comparing ids
FindIndex_Newest(logs, id) == IF logs = <<>> THEN 0 ELSE 1

\* part_008:20  logs.findIndex(l => l.id === id), 1-based; 0 stands for -1
FindIndex(logs, id) ==
    IF \E i \in 1..Len(logs) : logs[i].id = id
    THEN CHOOSE i \in 1..Len(logs) :
            logs[i].id = id /\ \A j \in 1..(i - 1) : logs[j].id # id
    ELSE 0

\* bug variant: only veritas_hash is assigned
WithVerification_HashOnly(entry, lock_hash, chain_index) ==
    [k \in DOMAIN entry \cup {"veritas_hash"} |->
        IF k = "veritas_hash" THEN lock_hash ELSE entry[k]]

\* part_008:22-23  the two assignments on the found entry
WithVerification(entry, lock_hash, chain_index) ==
    [k \in DOMAIN entry \cup {"veritas_hash", "chain_index"} |->
        IF k = "veritas_hash" THEN lock_hash
        ELSE IF k = "chain_index" THEN chain_index
        ELSE entry[k]]

\* part_008:17-31  the list updateLogWithVerification hands to setItem
UpdatedLogs(logs, id, lock_hash, chain_index) ==
    LET logIndex == FindIndex(logs, id)
    IN  IF logIndex # 0
        THEN [logs EXCEPT ![logIndex] = WithVerification(logs[logIndex], lock_hash, chain_index)]
        ELSE logs

\* AuditLogViewer.tsx:9-23  loadLogs runs on mount and on every 'storage' event
ViewAfter(newStorage) == IF viewMounted THEN newStorage ELSE viewLogs

\* AuditLogViewer.tsx:118  log.veritas_hash ? <sealed badge> : '-'
ShownSealed(entry) == "veritas_hash" \in DOMAIN entry /\ entry.veritas_hash # ""

\* part_008:66-86  log(type, action, details).  `now` is the clock reading used
\* for the timestamp and, without crypto.randomUUID, for the id;
\* setItemOk = FALSE is localStorage.setItem throwing (quota), which the catch
\* at line 83 swallows before sendToVeritas is reached
log(input, now, setItemOk) ==
    LET n == Len(logCalls) + 1
        id == IF cryptoRandomUUID THEN <<"uuid", n>> ELSE <<"ms", now>>
        newLog == [k \in DOMAIN input \cup {"id", "timestamp"} |->
                      IF k = "id" THEN id
                      ELSE IF k = "timestamp" THEN now
                      ELSE input[k]]
    IN  /\ Len(logCalls) < MaxLogCalls
        /\ IF setItemOk
           THEN /\ storage' = PrependAndLimit(newLog, storage)
                /\ inflight' = inflight \cup
                       {[call |-> n, logEntry |-> newLog, stage |-> "fetch", data |-> None]}
           ELSE UNCHANGED <<storage, inflight>>
        /\ logCalls' = Append(logCalls, [id |-> id, timestamp |-> now,
                                         stored |-> setItemOk, threw |-> FALSE])
        /\ UNCHANGED <<cryptoRandomUUID, ledgerTail, served, sealFailed,
                       viewMounted, viewLogs>>
        /\ UNCHANGED <<researchVars, otherVars>>

\* two log() calls can fall into the same millisecond
LogClock == IF logCalls = <<>> THEN {1}
            ELSE {logCalls[Len(logCalls)].timestamp, logCalls[Len(logCalls)].timestamp + 1}

\* part_008:47-56  the fetch of a sendToVeritas call settles
FetchSettles(req, fetchOutcome) ==
    /\ req \in inflight
    /\ req.stage = "fetch"
    /\ IF ResponseOk(fetchOutcome)
       THEN \* the ledger appended a block and answered; response.json() is awaited
            /\ inflight' = (inflight \ {req}) \cup
                   {[req EXCEPT !.stage = "json", !.data = LedgerReceipt(ledgerTail)]}
            /\ ledgerTail' = ledgerTail + 1
            /\ served' = served \cup
                   {[id |-> req.logEntry.id,
                     lock_hash |-> LedgerReceipt(ledgerTail).lock_hash,
                     chain_index |-> LedgerReceipt(ledgerTail).chain_index]}
            /\ UNCHANGED sealFailed
       ELSE \* fetch rejected (catch at line 61) or the status is not 2xx
            /\ inflight' = inflight \ {req}
            /\ sealFailed' = sealFailed \cup {req.logEntry.id}
            /\ UNCHANGED <<ledgerTail, served>>
    /\ UNCHANGED <<cryptoRandomUUID, storage, logCalls, viewMounted, viewLogs>>
    /\ UNCHANGED <<researchVars, otherVars>>

\* part_008:56-59 and 17-31  response.json() resolved; updateLogWithVerification.
\* setItemOk = FALSE is setItem throwing inside updateLogWithVerification (line 28)
JsonResolved(req, setItemOk) ==
    /\ req \in inflight
    /\ req.stage = "json"
    /\ inflight' = inflight \ {req}
    /\ LET logs == UpdatedLogs(storage, req.logEntry.id, req.data.lock_hash,
                               req.data.chain_index)
       IN  IF FindIndex(storage, req.logEntry.id) # 0 /\ setItemOk
           THEN /\ storage' = logs
                /\ viewLogs' = ViewAfter(logs)      \* dispatchEvent(new Event('storage'))
           ELSE UNCHANGED <<storage, viewLogs>>
    /\ UNCHANGED <<cryptoRandomUUID, ledgerTail, served, sealFailed, logCalls, viewMounted>>
    /\ UNCHANGED <<researchVars, otherVars>>

\* part_008:97-99  clearLogs, as called by AuditLogViewer.handleClear once the
\* user has confirmed (AuditLogViewer.tsx:25-30); handleClear then reloads
handleClear ==
    /\ viewMounted
    /\ storage' = <<>>
    /\ viewLogs' = <<>>
    /\ UNCHANGED <<cryptoRandomUUID, inflight, ledgerTail, served, sealFailed,
                   logCalls, viewMounted>>
    /\ UNCHANGED <<researchVars, otherVars>>

\* AuditLogViewer.tsx:13-23  the viewer is mounted: loadLogs, listener registered
MountViewer ==
    /\ ~viewMounted
    /\ viewMounted' = TRUE
    /\ viewLogs' = storage
    /\ UNCHANGED <<cryptoRandomUUID, storage, inflight, ledgerTail, served,
                   sealFailed, logCalls>>
    /\ UNCHANGED <<researchVars, otherVars>>

\* the viewer is unmounted: listener removed, component state dropped
UnmountViewer ==
    /\ viewMounted
    /\ viewMounted' = FALSE
    /\ viewLogs' = <<>>
    /\ UNCHANGED <<cryptoRandomUUID, storage, inflight, ledgerTail, served,
                   sealFailed, logCalls>>
    /\ UNCHANGED <<researchVars, otherVars>>

(***************************************************************************)
(* KeyStore and CryptoGateway (Umbrella KMS, server/core/umbrella.py),     *)
(* from sections 3, 4.1, 4.2 and 5 of the specification.  A key's bytes    *)
(* are "secret" while it is intact, "partial" while shred overwrites them, *)
(* "zeroed" afterwards.  use_key holds the key's lock for the duration of  *)
(* its callback; shred holds it for the duration of the destruction.       *)
(***************************************************************************)
MaxKeys == 2          \* keys that can be provisioned
MaxInFlight == 2      \* use_key callbacks in flight at once

KeyIds == 1..MaxKeys
Plaintexts == {"p1", "p2"}

\* what a caller gets back; `found` is the KeyRecord state the operation met
\* when it returned, `turn` tells two equal results in a row apart
KmsResult(op, key_id, result) ==
    [op |-> op, key_id |-> key_id, result |-> result,
     found |-> keyRecord[key_id], turn |-> 1 - kmsLast.turn]

InitKms ==
    /\ keyRecord = [k \in KeyIds |-> "ABSENT"]
    /\ rawKey = [k \in KeyIds |-> "none"]
    /\ shredding = {}
    /\ using = {}
    /\ envelopes = {}
    /\ kmsLast = [op |-> "none", key_id |-> 0, result |-> "none", found |-> "none", turn |-> 0]

\* 4.1  provision() -> key_id
provision ==
    /\ \E k \in KeyIds : keyRecord[k] = "ABSENT"
    /\ LET key_id == CHOOSE k \in KeyIds :
                        keyRecord[k] = "ABSENT" /\ \A j \in 1..(k - 1) : keyRecord[j] # "ABSENT"
       IN  /\ keyRecord' = [keyRecord EXCEPT ![key_id] = "ACTIVE"]
           /\ rawKey' = [rawKey EXCEPT ![key_id] = "secret"]
           /\ kmsLast' = KmsResult("provision", key_id, "ok")
    /\ UNCHANGED <<shredding, using, envelopes>>
    /\ UNCHANGED <<researchVars, auditVars, tamperVars, kycVars>>

\* 5  the per-key lock: a callback may start unless the key is being destroyed
CanUse(key_id) == key_id \notin shredding

\* bug variant: shred does not wait for the callbacks in flight
CanShred_NoWait(key_id) == key_id \notin shredding

\* 5  shred may start once no callback of that key is in flight
CanShred(key_id) ==
    /\ key_id \notin shredding
    /\ \A c \in using : c.key_id # key_id

\* 4.1  use_key(key_id, closure): the call starts.  It fails at once with
\* KeyNotFound / KeyShredded, or the callback starts running with the bytes.
\* encrypt and decrypt (4.2) are the two callers
use_key(key_id, op, plaintext, tampered) ==
    /\ CanUse(key_id)
    /\ IF keyRecord[key_id] = "ABSENT"
       THEN /\ kmsLast' = KmsResult(op, key_id, "KeyNotFound")
            /\ UNCHANGED using
       ELSE IF keyRecord[key_id] = "SHREDDED"
       THEN /\ kmsLast' = KmsResult(op, key_id, "KeyShredded")
            /\ UNCHANGED using
       ELSE /\ Cardinality(using) < MaxInFlight
            /\ using' = using \cup {[key_id |-> key_id, op |-> op,
                                     plaintext |-> plaintext, tampered |-> tampered]}
            /\ UNCHANGED kmsLast
    /\ UNCHANGED <<keyRecord, rawKey, shredding, envelopes>>
    /\ UNCHANGED <<researchVars, auditVars, tamperVars, kycVars>>

\* 4.2  encrypt(key_id, plaintext)
encrypt(key_id, plaintext) == use_key(key_id, "encrypt", plaintext, FALSE)

\* 4.2  decrypt(envelope); `tampered`: the ciphertext was modified on the way
decrypt(envelope, tampered) ==
    use_key(envelope.key_id, "decrypt", envelope.plaintext, tampered)

\* what the cipher gives when run with the bytes the callback reads
CipherResult(c, bytes) ==
    IF bytes # "secret" THEN "garbage"
    ELSE IF c.op = "encrypt" THEN "envelope"
    ELSE IF c.tampered THEN "TagMismatch"
    ELSE c.plaintext

\* 4.1  the callback runs its one cryptographic operation on the key bytes
\* and returns; the lock is released
CallbackReturns(c) ==
    /\ c \in using
    /\ using' = using \ {c}
    /\ kmsLast' = KmsResult(c.op, c.key_id, CipherResult(c, rawKey[c.key_id]))
    /\ envelopes' = IF c.op = "encrypt" /\ rawKey[c.key_id] = "secret"
                    THEN envelopes \cup {[key_id |-> c.key_id, plaintext |-> c.plaintext]}
                    ELSE envelopes
    /\ UNCHANGED <<keyRecord, rawKey, shredding>>
    /\ UNCHANGED <<researchVars, auditVars, tamperVars, kycVars>>

\* bug variant: shredding a key that is already shredded is reported as an error
shred_ErrorsWhenShredded(key_id) ==
    /\ CanShred(key_id)
    /\ IF keyRecord[key_id] = "ABSENT"
       THEN /\ kmsLast' = KmsResult("shred", key_id, "KeyNotFound")
            /\ UNCHANGED <<rawKey, shredding>>
       ELSE IF keyRecord[key_id] = "SHREDDED"
       THEN /\ kmsLast' = KmsResult("shred", key_id, "KeyShredded")
            /\ UNCHANGED <<rawKey, shredding>>
       ELSE /\ shredding' = shredding \cup {key_id}
            /\ rawKey' = [rawKey EXCEPT ![key_id] = "partial"]
            /\ UNCHANGED kmsLast
    /\ UNCHANGED <<keyRecord, using, envelopes>>
    /\ UNCHANGED <<researchVars, auditVars, tamperVars, kycVars>>

\* 4.1  shred(key_id): the call starts.  On a shredded key it is a no-op
\* success; on an active key it takes the lock and begins overwriting
shred(key_id) ==
    /\ CanShred(key_id)
    /\ IF keyRecord[key_id] = "ABSENT"
       THEN /\ kmsLast' = KmsResult("shred", key_id, "KeyNotFound")
            /\ UNCHANGED <<rawKey, shredding>>
       ELSE IF keyRecord[key_id] = "SHREDDED"
       THEN /\ kmsLast' = KmsResult("shred", key_id, "ok")
            /\ UNCHANGED <<rawKey, shredding>>
       ELSE /\ shredding' = shredding \cup {key_id}
            /\ rawKey' = [rawKey EXCEPT ![key_id] = "partial"]
            /\ UNCHANGED kmsLast
    /\ UNCHANGED <<keyRecord, using, envelopes>>
    /\ UNCHANGED <<researchVars, auditVars, tamperVars, kycVars>>

\* bug variant: the record is left ACTIVE after the bytes are gone
ShredCompletes_StaysActive(key_id) ==
    /\ key_id \in shredding
    /\ rawKey' = [rawKey EXCEPT ![key_id] = "zeroed"]
    /\ keyRecord' = keyRecord
    /\ shredding' = shredding \ {key_id}
    /\ kmsLast' = KmsResult("shred", key_id, "ok")
    /\ UNCHANGED <<using, envelopes>>
    /\ UNCHANGED <<researchVars, auditVars, tamperVars, kycVars>>

\* 4.1  the destruction is complete: bytes gone, record SHREDDED, lock released
ShredCompletes(key_id) ==
    /\ key_id \in shredding
    /\ rawKey' = [rawKey EXCEPT ![key_id] = "zeroed"]
    /\ keyRecord' = [keyRecord EXCEPT ![key_id] = "SHREDDED"]
    /\ shredding' = shredding \ {key_id}
    /\ kmsLast' = KmsResult("shred", key_id, "ok")
    /\ UNCHANGED <<using, envelopes>>
    /\ UNCHANGED <<researchVars, auditVars, tamperVars, kycVars>>

(***************************************************************************)
(* App.tsx: the KYC workflow (file selection, parsing, enrichment, risk    *)
(* analysis, reset).  A handler runs up to its first await; each service   *)
(* call in flight settles later, in any order.                             *)
(***************************************************************************)
MaxPending == 2       \* asynchronous calls in flight at once

Null == "null"
Entities == {"e1"}
Enrichments == {"d1"}
RiskReports == {"rr1"}
AsyncCalls == {"read", "hash", "parse", "enrich", "risk"}

RECURSIVE SumOver(_, _)
SumOver(f, S) ==
    IF S = {} THEN 0
    ELSE LET x == CHOOSE y \in S : TRUE IN f[x] + SumOver(f, S \ {x})

CanStartCall == SumOver(pending, AsyncCalls) < MaxPending

Started(call) == [pending EXCEPT ![call] = @ + 1]
Settled(call) == [pending EXCEPT ![call] = @ - 1]

LogEntry(type, action) == [type |-> type, action |-> action]

\* what the stretch of handler code that just ran did: its setStatus calls and
\* its auditService.log calls, in order
Stretch(handler, setStatus, logged) ==
    kycStep' = [handler |-> handler, setStatus |-> setStatus, logged |-> logged]

InitKyc ==
    /\ status = "IDLE"
    /\ files = 0
    /\ contextNote = FALSE
    /\ extractedEntity = Null
    /\ enrichmentData = Null
    /\ riskReport = Null
    /\ error = Null
    /\ pending = [call \in AsyncCalls |-> 0]
    /\ kycStep = [handler |-> "none", setStatus |-> <<>>, logged |-> <<>>]

\* App.tsx:1000  the upload zone, the note and the start button are rendered
\* while status is IDLE
UploadShown == status = "IDLE"

\* App.tsx:1083-1087, 1135 and 1246-1255  the enrichment button is rendered with
\* the report once an entity is extracted, while there is no enrichment data;
\* RE-RUN ENRICHMENT is rendered with the risk report
EnrichShown ==
    /\ status # "IDLE"
    /\ extractedEntity # Null
    /\ enrichmentData = Null \/ riskReport # Null

\* App.tsx:951-960  RESET_SESSION is rendered while status is COMPLETE
ResetShown == status = "COMPLETE"

\* App.tsx:71-99  handleFileChange up to `await Promise.all(filePromises)`
handleFileChange(selected) ==
    /\ UploadShown
    /\ IF selected = 0
       THEN UNCHANGED kycVars
       ELSE /\ CanStartCall
            /\ error' = Null
            /\ files' = 0
            /\ extractedEntity' = Null
            /\ pending' = Started("read")
            /\ Stretch("handleFileChange", <<>>, <<>>)
            /\ UNCHANGED <<status, contextNote, enrichmentData, riskReport>>
    /\ UNCHANGED <<researchVars, auditVars, tamperVars, kmsVars>>

\* App.tsx:99-100  the files were read
FilesLoaded ==
    /\ pending["read"] > 0
    /\ pending' = Settled("read")
    /\ files' = 1
    /\ Stretch("handleFileChange", <<>>, <<>>)
    /\ UNCHANGED <<status, contextNote, extractedEntity, enrichmentData, riskReport, error>>
    /\ UNCHANGED <<researchVars, auditVars, tamperVars, kmsVars>>

\* App.tsx:102-105  reader.onerror: the catch block of handleFileChange
FileReadFails ==
    /\ pending["read"] > 0
    /\ pending' = Settled("read")
    /\ error' = "Error reading files."
    /\ status' = "ERROR"
    /\ Stretch("handleFileChange", <<"ERROR">>, <<>>)
    /\ UNCHANGED <<files, contextNote, extractedEntity, enrichmentData, riskReport>>
    /\ UNCHANGED <<researchVars, auditVars, tamperVars, kmsVars>>

\* App.tsx:66-68  removeFile
removeFile ==
    /\ UploadShown
    /\ files > 0
    /\ files' = files - 1
    /\ Stretch("removeFile", <<>>, <<>>)
    /\ UNCHANGED <<status, contextNote, extractedEntity, enrichmentData, riskReport,
                   error, pending>>
    /\ UNCHANGED <<researchVars, auditVars, tamperVars, kmsVars>>

\* App.tsx:1025  onChange of the context note
setContextNote(notBlank) ==
    /\ UploadShown
    /\ notBlank # contextNote
    /\ contextNote' = notBlank
    /\ Stretch("setContextNote", <<>>, <<>>)
    /\ UNCHANGED <<status, files, extractedEntity, enrichmentData, riskReport,
                   error, pending>>
    /\ UNCHANGED <<researchVars, auditVars, tamperVars, kmsVars>>

\* App.tsx:108-127  startParsing up to its first await: sha256(contextNote) when
\* there is a note, parseDocument otherwise
startParsing ==
    /\ UploadShown
    /\ IF files = 0
       THEN UNCHANGED kycVars
       ELSE /\ CanStartCall
            /\ status' = "PARSING_DOC"
            /\ IF contextNote
               THEN /\ pending' = Started("hash")
                    /\ Stretch("startParsing", <<"PARSING_DOC">>, <<>>)
               ELSE /\ pending' = Started("parse")
                    /\ Stretch("startParsing", <<"PARSING_DOC">>,
                               <<LogEntry("USER_ACTION", "Multi-Document Upload Started")>>)
            /\ UNCHANGED <<files, contextNote, extractedEntity, enrichmentData,
                           riskReport, error>>
    /\ UNCHANGED <<researchVars, auditVars, tamperVars, kmsVars>>

\* App.tsx:116-127  the context hash resolved: two log entries, parseDocument starts
ContextHashed ==
    /\ pending["hash"] > 0
    /\ pending' = [pending EXCEPT !["hash"] = @ - 1, !["parse"] = @ + 1]
    /\ Stretch("startParsing", <<>>,
               <<LogEntry("USER_ACTION", "CASE_CONTEXT_PROVIDED"),
                 LogEntry("USER_ACTION", "Multi-Document Upload Started")>>)
    /\ UNCHANGED <<status, files, contextNote, extractedEntity, enrichmentData,
                   riskReport, error>>
    /\ UNCHANGED <<researchVars, auditVars, tamperVars, kmsVars>>

\* App.tsx:116  crypto.subtle.digest rejects outside any try block: startParsing
\* rejects and nothing else runs
ContextHashRejects ==
    /\ pending["hash"] > 0
    /\ pending' = Settled("hash")
    /\ Stretch("startParsing", <<>>, <<>>)
    /\ UNCHANGED <<status, files, contextNote, extractedEntity, enrichmentData,
                   riskReport, error>>
    /\ UNCHANGED <<researchVars, auditVars, tamperVars, kmsVars>>

\* App.tsx:126-130  parseDocument resolved
ParseResolved(entity) ==
    /\ pending["parse"] > 0
    /\ pending' = Settled("parse")
    /\ extractedEntity' = entity
    /\ status' = "EXTRACTED"
    /\ Stretch("startParsing", <<"EXTRACTED">>,
               <<LogEntry("SYSTEM_EVENT", "Multi-Document Parsing Success")>>)
    /\ UNCHANGED <<files, contextNote, enrichmentData, riskReport, error>>
    /\ UNCHANGED <<researchVars, auditVars, tamperVars, kmsVars>>

\* App.tsx:131-135  parseDocument rejected: the catch block of startParsing
ParseRejects ==
    /\ pending["parse"] > 0
    /\ pending' = Settled("parse")
    /\ error' = "Failed to parse documents. Please ensure clear images/PDFs."
    /\ status' = "ERROR"
    /\ Stretch("startParsing", <<"ERROR">>, <<>>)
    /\ UNCHANGED <<files, contextNote, extractedEntity, enrichmentData, riskReport>>
    /\ UNCHANGED <<researchVars, auditVars, tamperVars, kmsVars>>

\* App.tsx:138-144  handleEnrichment up to `await enrichEntityData`
handleEnrichment ==
    /\ EnrichShown
    /\ IF extractedEntity = Null
       THEN UNCHANGED kycVars
       ELSE /\ CanStartCall
            /\ status' = "ENRICHING"
            /\ pending' = Started("enrich")
            /\ Stretch("handleEnrichment", <<"ENRICHING">>,
                       <<LogEntry("USER_ACTION", "Enrichment Started")>>)
            /\ UNCHANGED <<files, contextNote, extractedEntity, enrichmentData,
                           riskReport, error>>
    /\ UNCHANGED <<researchVars, auditVars, tamperVars, kmsVars>>

\* App.tsx:144-163  enrichEntityData resolved; handleRiskAnalysis is called
\* (not awaited) and runs up to `await generateRiskAssessment`
EnrichResolved(data) ==
    /\ pending["enrich"] > 0
    /\ pending' = [pending EXCEPT !["enrich"] = @ - 1, !["risk"] = @ + 1]
    /\ enrichmentData' = data
    /\ status' = "ANALYZING_RISK"
    /\ Stretch("handleEnrichment", <<"ANALYZING_RISK">>,
               <<LogEntry("SYSTEM_EVENT", "Enrichment Completed")>>)
    /\ UNCHANGED <<files, contextNote, extractedEntity, riskReport, error>>
    /\ UNCHANGED <<researchVars, auditVars, tamperVars, kmsVars>>

\* App.tsx:154-159  enrichEntityData rejected: the catch block of handleEnrichment
EnrichRejects ==
    /\ pending["enrich"] > 0
    /\ pending' = Settled("enrich")
    /\ error' = "Agentic enrichment failed."
    /\ status' = "ERROR"
    /\ Stretch("handleEnrichment", <<"ERROR">>, <<LogEntry("ERROR", "Enrichment Failed")>>)
    /\ UNCHANGED <<files, contextNote, extractedEntity, enrichmentData, riskReport>>
    /\ UNCHANGED <<researchVars, auditVars, tamperVars, kmsVars>>

\* App.tsx:164-171  generateRiskAssessment resolved
RiskResolved(report_) ==
    /\ pending["risk"] > 0
    /\ pending' = Settled("risk")
    /\ riskReport' = report_
    /\ status' = "COMPLETE"
    /\ Stretch("handleRiskAnalysis", <<"COMPLETE">>,
               <<LogEntry("SYSTEM_EVENT", "Risk Assessment Generated")>>)
    /\ UNCHANGED <<files, contextNote, extractedEntity, enrichmentData, error>>
    /\ UNCHANGED <<researchVars, auditVars, tamperVars, kmsVars>>

\* App.tsx:172-177  generateRiskAssessment rejected: the catch block of handleRiskAnalysis
RiskRejects ==
    /\ pending["risk"] > 0
    /\ pending' = Settled("risk")
    /\ error' = "Risk assessment generation failed."
    /\ status' = "ERROR"
    /\ Stretch("handleRiskAnalysis", <<"ERROR">>, <<LogEntry("ERROR", "Risk Analysis Failed")>>)
    /\ UNCHANGED <<files, contextNote, extractedEntity, enrichmentData, riskReport>>
    /\ UNCHANGED <<researchVars, auditVars, tamperVars, kmsVars>>

\* App.tsx:200-213  reset; the calls in flight are not cancelled
reset ==
    /\ ResetShown
    /\ status' = "IDLE"
    /\ extractedEntity' = Null
    /\ enrichmentData' = Null
    /\ riskReport' = Null
    /\ error' = Null
    /\ files' = 0
    /\ contextNote' = FALSE
    /\ Stretch("reset", <<"IDLE">>, <<LogEntry("USER_ACTION", "Session Reset")>>)
    /\ UNCHANGED pending
    /\ UNCHANGED <<researchVars, auditVars, tamperVars, kmsVars>>

(***************************************************************************)
(* Initial state: the component as mounted, the audit store empty.         *)
(***************************************************************************)
InitResearch ==
    /\ topic = ""
    /\ isProcessing = FALSE
    /\ stopRequested = FALSE
    /\ capsule = NoCapsule
    /\ outcome = "none"
    /\ pc = "idle"
    /\ uuids = 0
    /\ decisionId = 0
    /\ veritasLedger = <<>>
    /\ previousChainHash = ZERO_SENTINEL
    /\ calls = <<>>
    /\ steps = JsonArray(<<>>)
    /\ executionQueue = <<>>
    /\ stepIndex = 0
    /\ allFindings = <<>>
    /\ cur = NoResult
    /\ snapLeft = 0
    /\ report = None
    /\ regressions = 0

InitAudit ==
    /\ cryptoRandomUUID \in BOOLEAN
    /\ storage = <<>>
    /\ inflight = {}
    /\ ledgerTail = 0
    /\ served = {}
    /\ sealFailed = {}
    /\ logCalls = <<>>
    /\ viewMounted = FALSE
    /\ viewLogs = <<>>

NotTampered == -1

InitTamper == tamperedAt = NotTampered

InitOther == InitTamper /\ InitKms /\ InitKyc

Init == InitResearch /\ InitAudit /\ cryptoRandomUUID /\ InitOther

Next ==
    \/ \E t \in Topics : SetTopic(t)
    \/ CloseCapsule
    \/ handleStop
    \/ handleStartResearch
    \/ SealDigestData(1)
    \/ SealPush
    \/ SealRejects
    \/ \E plan \in Plans : PlanReturned(plan)
    \/ PlanThrows
    \/ \E r \in ExecResults : ExecReturned(r)
    \/ \E r \in ExecResults : RetryReturned(r)
    \/ SnapshotHashed
    \/ SnapshotRejects
    \/ WaitDone
    \/ \E fullReport \in Reports : SynthReturned(fullReport)
    \/ SynthThrows

Spec == Init /\ [][Next]_vars

\* every promise a run awaits settles (digests, timers, model calls resolve or
\* reject), so a suspended run is always resumed
RunResumes ==
    \/ SealDigestData(1)
    \/ SealPush
    \/ SealRejects
    \/ \E plan \in Plans : PlanReturned(plan)
    \/ PlanThrows
    \/ \E r \in ExecResults : ExecReturned(r)
    \/ \E r \in ExecResults : RetryReturned(r)
    \/ SnapshotHashed
    \/ SnapshotRejects
    \/ WaitDone
    \/ \E fullReport \in Reports : SynthReturned(fullReport)
    \/ SynthThrows

SpecFair == Init /\ [][Next]_vars /\ WF_vars(RunResumes)


\* ---- the concurrency scenario ----
InitConcurrent ==
    /\ InitAudit /\ cryptoRandomUUID /\ InitOther
    /\ topic = "t1"
    /\ isProcessing = TRUE
    /\ stopRequested = FALSE
    /\ capsule = NoCapsule
    /\ outcome = "none"
    /\ pc = "concurrent"
    /\ uuids = 1
    /\ decisionId = 1
    /\ veritasLedger = <<>>
    /\ previousChainHash = ZERO_SENTINEL
    /\ \E m \in 1..MaxConcurrent : \E events \in [1..m -> EventData] :
          calls = [i \in 1..m |-> NewCall("ENGINE_EXEC", <<At(events[i])>>)]
    /\ steps = JsonArray(<<>>)
    /\ executionQueue = <<>>
    /\ stepIndex = 0
    /\ allFindings = <<>>
    /\ cur = NoResult
    /\ snapLeft = 0
    /\ report = None
    /\ regressions = 0

NextConcurrent ==
    \/ \E i \in 1..MaxConcurrent : SealDigestData(i)
    \/ \E i \in 1..MaxConcurrent : ConcurrentPush(i)

SpecConcurrent == InitConcurrent /\ [][NextConcurrent]_vars

\* ---- the audit service ----
InitAuditService == InitResearch /\ InitAudit /\ InitOther

NextAudit ==
    \/ \E input \in LogInputs : \E now \in LogClock : \E setItemOk \in BOOLEAN :
          log(input, now, setItemOk)
    \/ \E req \in inflight : \E fetchOutcome \in FetchOutcomes : FetchSettles(req, fetchOutcome)
    \/ \E req \in inflight : \E setItemOk \in BOOLEAN : JsonResolved(req, setItemOk)
    \/ handleClear
    \/ MountViewer
    \/ UnmountViewer

SpecAudit == InitAuditService /\ [][NextAudit]_vars

\* ---- the key store and the crypto gateway ----
InitKeyStore == InitResearch /\ InitAudit /\ cryptoRandomUUID /\ InitOther

NextKms ==
    \/ provision
    \/ \E key_id \in KeyIds : \E plaintext \in Plaintexts : encrypt(key_id, plaintext)
    \/ \E envelope \in envelopes : \E tampered \in BOOLEAN : decrypt(envelope, tampered)
    \/ \E c \in using : CallbackReturns(c)
    \/ \E key_id \in KeyIds : shred(key_id)
    \/ \E key_id \in KeyIds : ShredCompletes(key_id)

SpecKms == InitKeyStore /\ [][NextKms]_vars

\* ---- the KYC workflow ----
InitApp == InitResearch /\ InitAudit /\ cryptoRandomUUID /\ InitOther

NextKyc ==
    \/ \E selected \in {0, 1} : handleFileChange(selected)
    \/ FilesLoaded
    \/ FileReadFails
    \/ removeFile
    \/ \E notBlank \in BOOLEAN : setContextNote(notBlank)
    \/ startParsing
    \/ ContextHashed
    \/ ContextHashRejects
    \/ \E entity \in Entities : ParseResolved(entity)
    \/ ParseRejects
    \/ handleEnrichment
    \/ \E data \in Enrichments : EnrichResolved(data)
    \/ EnrichRejects
    \/ \E report_ \in RiskReports : RiskResolved(report_)
    \/ RiskRejects
    \/ reset

SpecKyc == InitApp /\ [][NextKyc]_vars

\* ---- the execution loop on its own: queue and step index only ----
\* ResearchWorkflow.tsx:94-148 with each iteration taken as one step, for plans
\* long enough to reach the fork limit
MaxPlanLen == 11      \* questions in the initial plan

QuestionPool == <<"p1", "p2", "p3", "p4", "p5", "p6", "p7", "p8", "p9", "p10", "p11",
                  "p12", "p13", "p14">>

\* planResearch answers: n different questions, or n questions the last of
\* which repeats the first
InitialPlans ==
    {SubSeq(QuestionPool, 1, n) : n \in 0..MaxPlanLen}
    \cup {SubSeq(QuestionPool, 1, n - 1) \o <<"p1">> : n \in 2..MaxPlanLen}

\* strongClaimsToFork of the critic: new questions, repeated ones, queued ones
CriticOutputs == {<<>>, <<"f1">>, <<"f1", "f2">>, <<"p1", "f3">>, <<"f2", "f2">>,
                  <<"f3", "f1", "f2">>}

InitLoop ==
    /\ InitAudit /\ cryptoRandomUUID /\ InitOther
    /\ topic = "t1"
    /\ isProcessing = TRUE
    /\ stopRequested = FALSE
    /\ capsule = NoCapsule
    /\ outcome = "none"
    /\ pc = "loop"
    /\ uuids = 1
    /\ decisionId = 1
    /\ veritasLedger = <<>>
    /\ previousChainHash = ZERO_SENTINEL
    /\ calls = <<>>
    /\ \E plan \in InitialPlans :
          /\ steps = JsonArray(plan)
          /\ executionQueue = plan
    /\ stepIndex = 0
    /\ allFindings = <<>>
    /\ cur = NoResult
    /\ snapLeft = 0
    /\ report = None
    /\ regressions = 0

\* bug variant: the fork pushes every new question while the queue is below the limit
LoopIteration_PushAll(newQuestions) ==
    /\ pc = "loop"
    /\ stepIndex < Len(executionQueue)
    /\ executionQueue' = IF Len(executionQueue) < MaxQueueFork
                         THEN executionQueue \o newQuestions
                         ELSE executionQueue
    /\ stepIndex' = stepIndex + 1
    /\ UNCHANGED <<topic, isProcessing, stopRequested, capsule, outcome, pc, uuids,
                   decisionId, veritasLedger, previousChainHash, calls, steps,
                   allFindings, cur, snapLeft, report, regressions>>
    /\ UNCHANGED <<auditVars, otherVars>>

\* one iteration: the loop test (line 97), the fork (127-134), stepIndex++ (147)
LoopIteration(newQuestions) ==
    /\ pc = "loop"
    /\ stepIndex < Len(executionQueue)
    /\ executionQueue' = Fork(executionQueue, newQuestions)
    /\ stepIndex' = stepIndex + 1
    /\ UNCHANGED <<topic, isProcessing, stopRequested, capsule, outcome, pc, uuids,
                   decisionId, veritasLedger, previousChainHash, calls, steps,
                   allFindings, cur, snapLeft, report, regressions>>
    /\ UNCHANGED <<auditVars, otherVars>>

NextLoop == \E newQuestions \in CriticOutputs : LoopIteration(newQuestions)

\* every awaited call of an iteration settles, so the next iteration is reached
SpecLoop == InitLoop /\ [][NextLoop]_vars /\ WF_vars(NextLoop)


(***************************************************************************)
(* HashChainLedger.verify(from_index, to_index), from the specification:   *)
(* recompute each block's chain hash from its stored data hash and the     *)
(* previous block's stored chain hash (the sentinel for index 0), report   *)
(* the first index where the stored chain hash differs.                    *)
(***************************************************************************)
VerifyOk == [ok |-> TRUE]
IntegrityViolation(at_index) == [ok |-> FALSE, at_index |-> at_index]

H(dataHash, prevChainHash) == sha256(<<dataHash, prevChainHash>>)

RECURSIVE verify(_, _, _)
verify(ledger, from_index, to_index) ==
    IF from_index > to_index THEN VerifyOk
    ELSE LET block == ledger[from_index + 1]
             prev == IF from_index = 0 THEN ZERO_SENTINEL
                     ELSE ledger[from_index].chainHash
         IN  IF block.chainHash # H(block.dataHash, prev)
             THEN IntegrityViolation(from_index)
             ELSE verify(ledger, from_index + 1, to_index)

(***************************************************************************)
(* Out-of-band modification of a sealed ledger: the ledger that outlives a *)
(* run is the one its capsule holds (ResearchWorkflow.tsx:161-178).        *)
(* Somebody with access to it replaces the data hash or the chain hash of  *)
(* one block, without going through sealBlock.                             *)
(***************************************************************************)
ForgedHash == sha256(<<At("forged")>>)

\* what the field is overwritten with: a fresh digest, the all-zero string, or
\* the same field of a neighbouring block
TamperValues(ledger, k, field) ==
    {ForgedHash, ZERO_SENTINEL}
    \cup {ledger[i][field] : i \in {k, k + 2} \cap (1..Len(ledger))}

Tamper(k, field, v) ==
    /\ tamperedAt = NotTampered
    /\ capsule # NoCapsule
    /\ k \in 0..(Len(capsule.veritasLedger) - 1)
    /\ v # capsule.veritasLedger[k + 1][field]
    /\ capsule' = [capsule EXCEPT !.veritasLedger[k + 1][field] = v]
    /\ tamperedAt' = k
    /\ UNCHANGED <<topic, isProcessing, stopRequested, outcome, pc, uuids, decisionId,
                   veritasLedger, previousChainHash, calls, steps, executionQueue,
                   stepIndex, allFindings, cur, snapLeft, report, regressions>>
    /\ UNCHANGED <<auditVars, kmsVars, kycVars>>

NextTamper ==
    \/ tamperedAt = NotTampered /\ Next
    \/ /\ capsule # NoCapsule
       /\ \E k \in 0..(Len(capsule.veritasLedger) - 1) :
             \E field \in {"dataHash", "chainHash"} :
                \E v \in TamperValues(capsule.veritasLedger, k, field) : Tamper(k, field, v)

SpecTamper == Init /\ [][NextTamper]_vars


(***************************************************************************)
(* Properties.                                                             *)
(***************************************************************************)
\* the ledgers that exist: the run's array and the one a capsule holds
Ledgers == {veritasLedger} \cup (IF capsule = NoCapsule THEN {} ELSE {capsule.veritasLedger})

\* C1 - chain integrity (I1): in every ledger, every block at index i > 0 has
\* chainHash[i] = H(dataHash[i] || chainHash[i-1])
C1_ChainIntegrity ==
    \A ledger \in Ledgers : \A i \in 2..Len(ledger) :
        ledger[i].chainHash = H(ledger[i].dataHash, ledger[i - 1].chainHash)

\* a completed run whose ledger includes a critic retry
C1_Witness ==
    /\ outcome = "completed"
    /\ Len(veritasLedger) >= 5
    /\ \E i \in 2..Len(veritasLedger) : veritasLedger[i].eventType = "CRITIC_VAL"

AllResolved == calls # <<>> /\ \A i \in DOMAIN calls : calls[i].stage = "resolved"

C3_MonotonicIndex ==
    \A ledger \in Ledgers :
        /\ \A i \in 1..Len(ledger) : ledger[i].index = i - 1
        /\ \A i \in 1..(Len(ledger) - 1) : ledger[i + 1].index = ledger[i].index + 1
        /\ \A i, j \in 1..Len(ledger) : ledger[i].index = ledger[j].index => i = j

\* a ledger whose third block (index 2) is a critic block
C3_Witness ==
    /\ Len(veritasLedger) >= 4
    /\ veritasLedger[3].eventType = "CRITIC_VAL"
    /\ veritasLedger[3].index = 2

\* C4 - predecessor linkage: block 0 carries the all-zero sentinel, block i > 0
\* carries exactly the chainHash of block i-1
C4_PredecessorLinkage ==
    \A ledger \in Ledgers :
        /\ Len(ledger) >= 1 => ledger[1].previousChainHash = ZERO_SENTINEL
        /\ \A i \in 2..Len(ledger) :
              ledger[i].previousChainHash = ledger[i - 1].chainHash

\* the second event of a run has been appended
C4_Witness ==
    /\ Len(veritasLedger) = 2
    /\ veritasLedger[2].eventType = "ORCHESTRATION"
    /\ pc \in {"exec", "synth", "idle"}

IsPrefix(a, b) == Len(a) <= Len(b) /\ \A i \in 1..Len(a) : b[i] = a[i]

\* C5 - append-only (I2): as long as a ledger exists (no new run has replaced
\* it) every step keeps all its blocks, unchanged and in place; a capsule's
\* ledger never changes
C5_AppendOnly ==
    [][/\ uuids' = uuids => IsPrefix(veritasLedger, veritasLedger')
       /\ (capsule # NoCapsule /\ capsule' # NoCapsule) =>
              capsule'.veritasLedger = capsule.veritasLedger]_vars

\* the second run has sealed blocks after the first run completed
C5_Witness ==
    /\ uuids = 2
    /\ Len(veritasLedger) >= 3
    /\ stopRequested

\* C10 - verify accepts honest chains: for every ledger of N >= 1 blocks,
\* verify(0, N-1) returns success
C10_VerifyAcceptsHonest ==
    \A ledger \in Ledgers :
        Len(ledger) >= 1 => verify(ledger, 0, Len(ledger) - 1) = VerifyOk

\* a sealed capsule of at least four blocks
C10_Witness ==
    /\ capsule # NoCapsule
    /\ Len(capsule.veritasLedger) >= 4
    /\ capsule.veritasLedger[Len(capsule.veritasLedger)].eventType = "WORM_SEAL"


StoredIds == {storage[i].id : i \in 1..Len(storage)}

\* C6 - WORM audit log: an entry that log() has stored is still stored, with
\* the same fields, after every later step of the audit service
C6_WriteOnceReadMany ==
    [][\A i \in 1..Len(storage) : \E j \in 1..Len(storage') : storage'[j] = storage[i]]_vars

\* C7 - fail-closed record: a log() call whose event could not be sealed (the
\* local write failed, the ledger was unreachable or answered non-2xx) ended
\* with an error for its caller, and no record of the event is kept
C7_FailClosedRecord ==
    /\ \A k \in 1..Len(logCalls) :
          (~logCalls[k].stored \/ logCalls[k].id \in sealFailed) => logCalls[k].threw
    /\ \A id \in sealFailed : id \notin StoredIds

HasReceiptField(entry) ==
    "veritas_hash" \in DOMAIN entry \/ "chain_index" \in DOMAIN entry

ReceiptOf(entry) ==
    [id |-> entry.id,
     lock_hash |-> IF "veritas_hash" \in DOMAIN entry THEN {entry.veritas_hash} ELSE {},
     chain_index |-> IF "chain_index" \in DOMAIN entry THEN {entry.chain_index} ELSE {}]

ServedReceipts ==
    {[id |-> r.id, lock_hash |-> {r.lock_hash}, chain_index |-> {r.chain_index}] : r \in served}

SealedOnlyIfServed(logs) ==
    \A i \in 1..Len(logs) :
        (HasReceiptField(logs[i]) \/ ShownSealed(logs[i])) =>
            ReceiptOf(logs[i]) \in ServedReceipts

C9_NoPartialReceipt ==
    \A logs \in {storage, viewLogs} : \A i \in 1..Len(logs) :
        "veritas_hash" \in DOMAIN logs[i] <=> "chain_index" \in DOMAIN logs[i]

\* an entry sealed as the ledger's second block
C9_Witness ==
    \E i \in 1..Len(storage) :
        /\ "veritas_hash" \in DOMAIN storage[i]
        /\ "chain_index" \in DOMAIN storage[i]
        /\ storage[i].chain_index = 1

\* C11 - tamper evidence: once the dataHash or the chainHash of the block at
\* index k has been changed out of band, verify over every range that contains
\* k returns IntegrityViolation with at_index = k, never success
C11_TamperEvidence ==
    tamperedAt # NotTampered =>
        \A from_index \in 0..tamperedAt :
            \A to_index \in tamperedAt..(Len(capsule.veritasLedger) - 1) :
                verify(capsule.veritasLedger, from_index, to_index)
                    = IntegrityViolation(tamperedAt)

\* a block in the middle of a sealed ledger of at least five blocks was modified
C11_Witness ==
    /\ tamperedAt >= 1
    /\ Len(capsule.veritasLedger) >= 5
    /\ tamperedAt < Len(capsule.veritasLedger) - 1

\* the tail the next append will chain to, as the block store shows it
TailOf(ledger) == IF ledger = <<>> THEN ZERO_SENTINEL ELSE ledger[Len(ledger)].chainHash

\* C12 - atomic append: a sealBlock call that fails leaves the block store and
\* the tail as they were; the tail is always the chain hash of the last stored
\* block and no stored block lacks one of its hashes
C12_AtomicAppend ==
    /\ [](/\ previousChainHash = TailOf(veritasLedger)
          /\ \A i \in 1..Len(veritasLedger) :
                veritasLedger[i].dataHash # None /\ veritasLedger[i].chainHash # None)
    /\ [][(\E i \in DOMAIN calls \cap DOMAIN calls' :
              calls[i].stage # "rejected" /\ calls'[i].stage = "rejected")
          => (veritasLedger' = veritasLedger /\ previousChainHash' = previousChainHash)]_vars

\* a call failed at its second digest, after two blocks had been stored
C12_Witness ==
    /\ calls # <<>>
    /\ calls[1].stage = "rejected" /\ calls[1].chainHash # None
    /\ Len(veritasLedger) >= 2
    /\ outcome = "fatal"

\* C13 - monotonic timestamps: block timestamps never decrease along a ledger
C13_MonotonicTimestamps ==
    \A ledger \in Ledgers : \A i \in 1..(Len(ledger) - 1) :
        ledger[i].timestamp <= ledger[i + 1].timestamp

\* C14 - unique event ids: no two blocks of a ledger share an eventId
C14_UniqueEventIds ==
    \A ledger \in Ledgers : \A i, j \in 1..Len(ledger) :
        ledger[i].eventId = ledger[j].eventId => i = j

\* C15 - crypto-shredding irreversibility (I4): a KeyRecord only moves from
\* ACTIVE to SHREDDED and never back, the bytes of a shredded key stay gone, a
\* successful shred leaves the record SHREDDED, and every encrypt / decrypt
\* that meets a shredded key fails with KeyShredded
C15_ShreddingIrreversible ==
    /\ [][\A k \in KeyIds :
            /\ keyRecord[k] = "SHREDDED" => (keyRecord'[k] = "SHREDDED" /\ rawKey'[k] = "zeroed")
            /\ keyRecord[k] = "ACTIVE" => keyRecord'[k] \in {"ACTIVE", "SHREDDED"}]_vars
    /\ [][(kmsLast' # kmsLast /\ kmsLast'.op = "shred" /\ kmsLast'.result = "ok")
            => keyRecord'[kmsLast'.key_id] = "SHREDDED"]_vars
    /\ []((kmsLast.op \in {"encrypt", "decrypt"} /\ kmsLast.found = "SHREDDED")
            => kmsLast.result = "KeyShredded")

\* an envelope was made under a key, the key was shredded, decrypt failed
C15_Witness ==
    /\ kmsLast.op = "decrypt" /\ kmsLast.result = "KeyShredded"
    /\ keyRecord[kmsLast.key_id] = "SHREDDED"
    /\ \E envelope \in envelopes : envelope.key_id = kmsLast.key_id

\* C16 - shred / use_key mutual exclusion: no callback is in flight for a key
\* that is being destroyed, every callback in flight sees the intact key, no
\* operation ever ran on a partly destroyed key; a shred or a callback on one
\* key does not keep use_key or shred of another key from starting
C16_ShredUseExclusion ==
    /\ \A c \in using : c.key_id \notin shredding /\ rawKey[c.key_id] = "secret"
    /\ kmsLast.result # "garbage"
    /\ \A k1, k2 \in KeyIds :
          (/\ k1 # k2
           /\ k1 \in shredding \/ \E c \in using : c.key_id = k1
           /\ keyRecord[k2] = "ACTIVE" /\ k2 \notin shredding)
          => /\ Cardinality(using) < MaxInFlight => ENABLED encrypt(k2, "p1")
             /\ (\A c \in using : c.key_id # k2) => ENABLED shred(k2)

\* one key is being destroyed while a callback runs on another key
C16_Witness ==
    \E k \in shredding : \E c \in using : c.key_id # k

\* C17 - idempotent shred: shred of a key that is already SHREDDED succeeds
\* and changes nothing in the KeyStore
C17_IdempotentShred ==
    [][(kmsLast' # kmsLast /\ kmsLast'.op = "shred" /\ keyRecord[kmsLast'.key_id] = "SHREDDED")
        => /\ kmsLast'.result = "ok"
           /\ keyRecord' = keyRecord /\ rawKey' = rawKey /\ shredding' = shredding
           /\ using' = using /\ envelopes' = envelopes]_vars

\* a second shred of a key has returned
C17_Witness ==
    /\ kmsLast.op = "shred" /\ kmsLast.result = "ok" /\ kmsLast.found = "SHREDDED"
    /\ keyRecord[kmsLast.key_id] = "SHREDDED"

\* C18 - mandatory audit logging: every stretch of a KYC handler that sets
\* status to ERROR also writes an ERROR entry through auditService.log
C18_ErrorPathsAudited ==
    (\E i \in 1..Len(kycStep.setStatus) : kycStep.setStatus[i] = "ERROR")
        => \E j \in 1..Len(kycStep.logged) : kycStep.logged[j].type = "ERROR"

\* C19 - LLM outputs fail closed: no value standing in for a failed or
\* unparseable model response is passed on: no placeholder finding is collected,
\* no {} is sealed as the plan, no capsule carries an undefined report
C19_LLMFailClosed ==
    /\ \A i \in 1..Len(allFindings) :
          allFindings[i].findings # "Failed to execute search step."
    /\ \A ledger \in Ledgers : \A i \in 1..Len(ledger) :
          ledger[i].dataHash # DataHashOf(JSONstringify(NotIterable))
    /\ capsule # NoCapsule => capsule.fullReport # "undefined"

\* C20 - the data hash covers the block timestamp: two blocks with different
\* timestamps never have the same dataHash
C20_DataHashCoversTimestamp ==
    \A ledger \in Ledgers : \A i, j \in 1..Len(ledger) :
        ledger[i].timestamp # ledger[j].timestamp => ledger[i].dataHash # ledger[j].dataHash

\* the entries of the previous list that a log() call keeps behind the new one
KeptPrefix(logs) == SubSeq(logs, 1, IF Len(logs) < MAX_LOGS - 1 THEN Len(logs) ELSE MAX_LOGS - 1)

IdsOf(logs) == [i \in 1..Len(logs) |-> logs[i].id]

LogCallStep == Len(logCalls') = Len(logCalls) + 1

CountType(ledger, eventType) ==
    Cardinality({i \in 1..Len(ledger) : ledger[i].eventType = eventType})

\* C22 - sealed-capsule ledger shape: a capsule's ledger starts with INGEST,
\* then ORCHESTRATION, ends with its only WORM_SEAL block, every block carries
\* the capsule's decision id, the chain-hash relation holds from the sentinel
\* on; a capsule is set only in a step that has just sealed WORM_SEAL, with
\* the run's ledger and decision id
C22_CapsuleLedgerShape ==
    /\ [](capsule # NoCapsule =>
            LET ledger == capsule.veritasLedger IN
            /\ Len(ledger) >= 3
            /\ ledger[1].eventType = "INGEST"
            /\ ledger[2].eventType = "ORCHESTRATION"
            /\ ledger[Len(ledger)].eventType = "WORM_SEAL"
            /\ CountType(ledger, "WORM_SEAL") = 1
            /\ \A i \in 1..Len(ledger) : ledger[i].eventId = capsule.id
            /\ \A i \in 1..Len(ledger) :
                  ledger[i].chainHash =
                      H(ledger[i].dataHash,
                        IF i = 1 THEN ZERO_SENTINEL ELSE ledger[i - 1].chainHash))
    /\ [][(capsule = NoCapsule /\ capsule' # NoCapsule) =>
            /\ Len(veritasLedger') = Len(veritasLedger) + 1
            /\ veritasLedger'[Len(veritasLedger')].eventType = "WORM_SEAL"
            /\ capsule'.veritasLedger = veritasLedger'
            /\ capsule'.id = decisionId]_vars

\* the second run of a session produced a capsule after a critic retry
C22_Witness ==
    /\ capsule # NoCapsule
    /\ capsule.id = 2
    /\ CountType(capsule.veritasLedger, "CRITIC_VAL") >= 1

\* C23 - every planned step is sealed: in a capsule the number of ENGINE_EXEC
\* blocks equals the length of plan_steps
C23_EveryPlannedStepSealed ==
    capsule # NoCapsule =>
        CountType(capsule.veritasLedger, "ENGINE_EXEC") = Len(capsule.plan_steps)

Max(a, b) == IF a >= b THEN a ELSE b

\* C24 - the research loop terminates with a bounded queue: the queue starts
\* as the plan and is never longer than max(10, plan length), no question past
\* the plan occurs anywhere else in the queue, and the step index reaches the
\* end of the queue whatever the critic answers
C24_BoundedQueueTerminates ==
    /\ [](/\ IsPrefix(steps.items, executionQueue)
          /\ Len(executionQueue) <= Max(MaxQueueFork, Len(steps.items))
          /\ \A i \in (Len(steps.items) + 1)..Len(executionQueue) :
                \A j \in 1..Len(executionQueue) :
                   executionQueue[i] = executionQueue[j] => i = j)
    /\ <>(stepIndex >= Len(executionQueue))

\* a plan of nine questions was extended by one fork to the limit of ten and
\* the loop has run through all of them
C24_Witness ==
    /\ pc = "loop"
    /\ Len(steps.items) = 9
    /\ Len(executionQueue) = MaxQueueFork
    /\ stepIndex = Len(executionQueue)

ExecStarts == pc # "exec" /\ pc' = "exec"
RetryStarts == pc # "retry" /\ pc' = "retry"
Critics(ledger) == CountType(ledger, "CRITIC_VAL")

\* C25 - at most one retry per step.  Step by step: a first execution starts
\* only for a queue entry not executed before (the step index has just moved
\* on); a retry starts only in the step that seals a CRITIC_VAL block, for the
\* same entry, after a first result with at least one source and average trust
\* below 60; CRITIC_VAL blocks are sealed only in steps that start a retry, one
\* per retry, so both counts stay equal; a CRITIC_VAL seal is requested only
\* by a first execution; after the retry the step goes on to its ENGINE_EXEC
\* seal, never to another execution
C25_AtMostOneRetry ==
    [][/\ ExecStarts =>
             \/ pc = "wait" /\ stepIndex' = stepIndex + 1
             \/ pc = "seal" /\ calls[1].eventType = "ORCHESTRATION" /\ stepIndex' = 0
       /\ RetryStarts =>
             /\ pc = "seal" /\ calls[1].eventType = "CRITIC_VAL"
             /\ stepIndex' = stepIndex
             /\ Len(cur.sources) > 0
             /\ SumSeq(cur.sources) < 60 * Len(cur.sources)
             /\ Critics(veritasLedger') = Critics(veritasLedger) + 1
             /\ veritasLedger'[Len(veritasLedger')].eventType = "CRITIC_VAL"
       /\ Critics(veritasLedger') > Critics(veritasLedger) => RetryStarts
       /\ (calls' # calls /\ calls' # <<>> /\ calls'[1].stage = "digestData"
             /\ calls'[1].eventType = "CRITIC_VAL") => pc = "exec"
       /\ (pc = "retry" /\ pc' # "retry") =>
             /\ stepIndex' = stepIndex
             /\ pc' \in {"snap", "seal"}
             /\ pc' = "seal" => calls'[1].eventType = "ENGINE_EXEC"
       /\ (pc = "snap" /\ pc' # "snap") =>
             \/ pc' = "idle"
             \/ pc' = "seal" /\ calls'[1].eventType = "ENGINE_EXEC"]_vars

\* the second step of a run is being retried after the first step was retried too
C25_Witness ==
    /\ pc = "retry"
    /\ stepIndex = 1
    /\ Critics(veritasLedger) = 2

\* the step evaluates the loop test of line 97: after the timer of an
\* iteration, or after the ORCHESTRATION block of an iterable plan was sealed
LoopTestStep ==
    \/ pc = "wait" /\ pc' # "wait"
    \/ /\ pc = "seal" /\ calls[1].eventType = "ORCHESTRATION" /\ steps.isArray
       /\ Len(veritasLedger') = Len(veritasLedger) + 1

\* C26 - stop is honoured at step boundaries: while the stop flag is set no
\* execution of a further queue entry starts; a step in progress when the flag
\* is set is still sealed unless a digest fails; at the loop test a stopped run
\* with no finding ends with an error and without a capsule, a stopped run
\* with findings goes on to synthesis
C26_StopAtStepBoundary ==
    [][/\ stopRequested => ~ExecStarts
       /\ (stopRequested /\ LoopTestStep) =>
             IF allFindings = <<>>
             THEN /\ outcome' = "fatal" /\ pc' = "idle"
                  /\ capsule' = NoCapsule /\ ~isProcessing'
             ELSE pc' = "synth" /\ outcome' = "none"
       /\ (stopRequested /\ pc \in {"exec", "retry", "snap"} /\ pc' = "seal") =>
             calls'[1].eventType \in {"CRITIC_VAL", "ENGINE_EXEC"}]_vars

\* Stop was pressed during the first of two steps: the step was sealed, the
\* second was not started, the report is being synthesized
C26_Witness ==
    /\ stopRequested
    /\ pc = "synth"
    /\ Len(executionQueue) = 2
    /\ stepIndex = 1
    /\ Len(allFindings) = 1
    /\ CountType(veritasLedger, "ENGINE_EXEC") = 1

C28_CompleteIsConsistent ==
    status = "COMPLETE" =>
        (extractedEntity # Null /\ enrichmentData # Null /\ riskReport # Null)

====
